---- MODULE Spec2Model ----
(***************************************************************************)
(* Kanban workflow-state synchronisation and positioning model of the      *)
(* surgical patient hub: the row store (kanban_boards, patients,           *)
(* kanban_cards, surgeries), the board view with its cached card list, the *)
(* surgery dialogs, the global overdue sweep and the per-patient resync.   *)
(***************************************************************************)
EXTENDS Integers, Sequences, FiniteSets, TLC

\* ------------------------------------------------------------------ bounds
MaxBoards == 2
MaxPatients == 2
MaxCards == 2
MaxSurgeries == 2
MaxDate == 1
MaxMrn == 1
MaxImportCards == 2
MaxImportPos == 1
MaxDeriveDate == 3
MaxListDate == 2
MaxColumns == 5
MaxMoves == 2

\* ------------------------------------------------------- program constants
NullDate == 0
NoMrn == 0
NoBoard == 0

BoardIds == 1..MaxBoards
PatientIds == 1..MaxPatients
CardIds == 1..MaxCards
SurgeryIds == 1..MaxSurgeries
Dates == 1..MaxDate
Mrns == 1..MaxMrn

SurgeryStatuses == {"scheduled", "pending", "in_progress", "completed", "cancelled"}
AddSurgeryStatuses == {"scheduled", "in_progress", "completed", "cancelled"}
DefaultColumns == <<"waiting", "scheduled", "operated", "follow_up">>

VARIABLES
  kanban_boards,  \* table kanban_boards: board id -> columns_config (list of column ids)
  patients,       \* table patients: patient id -> medical_record_number
  kanban_cards,   \* table kanban_cards: set of rows
  surgeries,      \* table surgeries: set of rows
  id,             \* the board the board page is open on (route /kanban/:id), or NoBoard
  cards,          \* the board page's cached query data ["kanban-cards", id]
  now,            \* the clock
  lastOp,         \* the last handler run: name, subject, store calls issued, outcome,
                  \* failed store call
  filters,        \* the board page's filter state
  requests,       \* the store writes issued without awaiting the answer, in issue order
  pc              \* the handler that is between two of its store calls: its name,
                  \* the number of calls it has made, its subject and the rows it read

vars == <<kanban_boards, patients, kanban_cards, surgeries, id, cards, now, lastOp,
          filters, requests, pc>>

\* no handler is between two of its store calls
Idle == [op |-> "none", at |-> 0, arg |-> 0, read |-> {}]

\* useState<FilterState> initial value: no search, all priorities, no date bound
NoFilters == [search |-> NoMrn, urgency |-> "all", dateFrom |-> NullDate, dateTo |-> NullDate]

\* failed names the store call that failed in the run, "none" when none did
OpF(name, arg, calls, result, failed) ==
  [op |-> name, arg |-> arg, calls |-> calls, result |-> result, failed |-> failed]

Op(name, arg, calls, result) == OpF(name, arg, calls, result, "none")

Range(s) == {s[i] : i \in DOMAIN s}

Min(S) == CHOOSE x \in S : \A y \in S : x <= y

\* ------------------------------------------------------------ the row store

\* gen_random_uuid(): a fresh primary key
FreshCardId == Min(CardIds \ {c.id : c \in kanban_cards})
HasFreshCardId == CardIds \ {c.id : c \in kanban_cards} # {}
FreshPatientId == Min(PatientIds \ DOMAIN patients)
HasFreshPatientId == PatientIds \ DOMAIN patients # {}
FreshSurgeryId == Min(SurgeryIds \ {s.id : s \in surgeries})
HasFreshSurgeryId == SurgeryIds \ {s.id : s \in surgeries} # {}
FreshBoardId == Min(BoardIds \ DOMAIN kanban_boards)
HasFreshBoardId == BoardIds \ DOMAIN kanban_boards # {}

\* kanban_cards constraints: both foreign keys and UNIQUE(patient_id, board_id)
CardInsertAcceptedNoUnique(rows, boardIds, patientIds, b, p) ==
  /\ b \in boardIds
  /\ p \in patientIds

CardInsertAccepted(rows, boardIds, patientIds, b, p) ==
  /\ b \in boardIds
  /\ p \in patientIds
  /\ ~\E c \in rows : c.patient_id = p /\ c.board_id = b

\* patients.medical_record_number TEXT UNIQUE (NULLs never collide)
PatientInsertAccepted(pats, mrn) ==
  mrn = NoMrn \/ ~\E p \in DOMAIN pats : pats[p] = mrn

\* a kanban_cards row as an insert without manual_override, scheduled_date and
\* notes builds it, with the priority the forms start with
NewCard(cid, b, p, col, pos) ==
  [id |-> cid, board_id |-> b, patient_id |-> p, column_name |-> col,
   position |-> pos, manual_override |-> FALSE, scheduled_date |-> NullDate,
   priority |-> "normal", notes |-> <<>>]

\* ------------------------------------------------------- the board page view

\* queryFn of ["kanban-cards", id]: the rows of the board
FetchCards(rows, b) == {c \in rows : c.board_id = b}

\* board.columns_config of the open board
Columns == IF id \in DOMAIN kanban_boards THEN Range(kanban_boards[id]) ELSE {}

\* cards.filter(c => c.column_name === columnId)
CardsInColumn(columnId) == {c \in cards : c.column_name = columnId}

\* position of an added card
AddCardPositionZero(columnId) == 0

AddCardPosition(columnId) == Cardinality(CardsInColumn(columnId))

\* getCardsForColumn with no filter set: the indexes card t can be shown at in
\* its column (sorted by position; the order of equal positions is the store's)
ListingIndexes(t) ==
  LET col == CardsInColumn(t.column_name)
      lo == Cardinality({c \in col : c.position < t.position})
      ties == Cardinality({c \in col : c.position = t.position /\ c.id # t.id})
  IN lo..(lo + ties)

\* ------------------------------------------------------------------- Init
Init ==
  /\ kanban_boards = <<>>
  /\ patients = <<>>
  /\ kanban_cards = {}
  /\ surgeries = {}
  /\ id = NoBoard
  /\ cards = {}
  /\ now = 1
  /\ lastOp = Op("init", 0, 0, "success")
  /\ filters = NoFilters
  /\ requests = <<>>
  /\ pc = Idle

\* ---------------------------------------------------------------- actions

\* ManageBoardDialog createMutation: the store fills in the default columns_config
CreateBoard ==
  /\ HasFreshBoardId
  /\ kanban_boards' = [b \in DOMAIN kanban_boards \cup {FreshBoardId} |->
                         IF b = FreshBoardId THEN DefaultColumns ELSE kanban_boards[b]]
  /\ lastOp' = Op("createBoard", FreshBoardId, 1, "success")
  /\ UNCHANGED <<patients, kanban_cards, surgeries, id, cards, now, filters, requests, pc>>

\* AddPatientDialog addPatientMutation
AddPatient(mrn) ==
  /\ HasFreshPatientId
  /\ IF PatientInsertAccepted(patients, mrn)
     THEN /\ patients' = [p \in DOMAIN patients \cup {FreshPatientId} |->
                            IF p = FreshPatientId THEN mrn ELSE patients[p]]
          /\ lastOp' = Op("addPatient", 0, 1, "success")
     ELSE /\ patients' = patients
          /\ lastOp' = Op("addPatient", 0, 1, "error")
  /\ UNCHANGED <<kanban_boards, kanban_cards, surgeries, id, cards, now, filters, requests, pc>>

\* route /kanban/:id mounts the board page; its queries fetch
OpenBoard(b) ==
  /\ b \in DOMAIN kanban_boards
  /\ b # id
  /\ id' = b
  /\ cards' = FetchCards(kanban_cards, b)
  /\ lastOp' = Op("openBoard", b, 1, "success")
  /\ UNCHANGED <<kanban_boards, patients, kanban_cards, surgeries, now, filters, requests, pc>>

\* addCardMutation: insert, then on success invalidate ["kanban-cards", id]
AddCard(columnId, patientId) ==
  /\ id # NoBoard
  /\ columnId \in Columns
  /\ patientId \in DOMAIN patients
  /\ IF CardInsertAccepted(kanban_cards, DOMAIN kanban_boards, DOMAIN patients, id, patientId)
     THEN /\ HasFreshCardId
          /\ kanban_cards' = kanban_cards \cup
               {NewCard(FreshCardId, id, patientId, columnId, AddCardPosition(columnId))}
          /\ cards' = FetchCards(kanban_cards', id)
          /\ lastOp' = Op("addCard", patientId, 1, "success")
     ELSE /\ UNCHANGED <<kanban_cards, cards>>
          /\ lastOp' = Op("addCard", patientId, 1, "error")
  /\ UNCHANGED <<kanban_boards, patients, surgeries, id, now, filters, requests, pc>>

\* CreatePatientInKanban createPatientMutation: insert the patient, insert the
\* card at the position the board page passed as a prop, invalidate on success
CreatePatientInKanban(columnId, mrn) ==
  /\ id # NoBoard
  /\ columnId \in Columns
  /\ IF PatientInsertAccepted(patients, mrn)
     THEN /\ HasFreshPatientId
          /\ HasFreshCardId
          /\ patients' = [p \in DOMAIN patients \cup {FreshPatientId} |->
                            IF p = FreshPatientId THEN mrn ELSE patients[p]]
          /\ kanban_cards' = kanban_cards \cup
               {NewCard(FreshCardId, id, FreshPatientId, columnId, AddCardPosition(columnId))}
          /\ cards' = FetchCards(kanban_cards', id)
          /\ lastOp' = Op("createPatientInKanban", FreshPatientId, 2, "success")
     ELSE /\ UNCHANGED <<patients, kanban_cards, cards>>
          /\ lastOp' = Op("createPatientInKanban", 0, 1, "error")
  /\ UNCHANGED <<kanban_boards, surgeries, id, now, filters, requests, pc>>

\* moveCardMutation: update column_name, manual_override and position by id
MoveCardUpdateNoLatch(rows, cardId, newColumn, newPosition) ==
  {IF c.id = cardId
   THEN [c EXCEPT !.column_name = newColumn, !.position = newPosition]
   ELSE c : c \in rows}

MoveCardUpdateShifting(rows, cardId, newColumn, newPosition) ==
  LET moved == {c \in rows : c.id = cardId}
      Pushed(c) == \E m \in moved : /\ m.board_id = c.board_id
                                     /\ c.column_name = newColumn
                                     /\ c.position >= newPosition
  IN {IF c.id = cardId
      THEN [c EXCEPT !.column_name = newColumn, !.manual_override = TRUE,
                     !.position = newPosition]
      ELSE IF Pushed(c) THEN [c EXCEPT !.position = c.position + 1]
      ELSE c : c \in rows}

MoveCardUpdate(rows, cardId, newColumn, newPosition) ==
  {IF c.id = cardId
   THEN [c EXCEPT !.column_name = newColumn, !.manual_override = TRUE,
                  !.position = newPosition]
   ELSE c : c \in rows}

\* updateCardPositionMutation: update position by id
UpdateCardPositionLatching(rows, cardId, newPosition) ==
  {IF c.id = cardId
   THEN [c EXCEPT !.position = newPosition, !.manual_override = TRUE]
   ELSE c : c \in rows}

UpdateCardPosition(rows, cardId, newPosition) ==
  {IF c.id = cardId THEN [c EXCEPT !.position = newPosition] ELSE c : c \in rows}

\* the cards the board page renders: those of the cached list whose column is
\* one of the board's columns
Rendered == {c \in cards : c.column_name \in Columns}

\* handleCardDrop(columnId): the dragged card is dropped on a column's container
\* (no target position)
DropOnColumn(draggedCard, columnId) ==
  /\ id # NoBoard
  /\ columnId \in Columns
  /\ \E card \in Rendered :
       /\ card.id = draggedCard
       /\ IF card.column_name # columnId
          THEN /\ kanban_cards' = MoveCardUpdate(kanban_cards, draggedCard, columnId,
                                                 AddCardPosition(columnId))
               /\ cards' = FetchCards(kanban_cards', id)
               /\ lastOp' = Op("moveCard", draggedCard, 1, "success")
          ELSE /\ UNCHANGED <<kanban_cards, cards>>
               /\ lastOp' = Op("dropIgnored", draggedCard, 0, "success")
  /\ UNCHANGED <<kanban_boards, patients, surgeries, id, now, filters, requests, pc>>

\* handleCardDrop(columnId, index): the dragged card is dropped on another card,
\* shown at index targetPosition of its column
DropOnCard(draggedCard, targetCard, targetPosition) ==
  /\ id # NoBoard
  /\ draggedCard # targetCard
  /\ \E card \in Rendered, t \in Rendered :
       /\ card.id = draggedCard
       /\ t.id = targetCard
       /\ targetPosition \in ListingIndexes(t)
       /\ IF card.column_name # t.column_name
          THEN /\ kanban_cards' = MoveCardUpdate(kanban_cards, draggedCard,
                                                 t.column_name, targetPosition)
               /\ lastOp' = Op("moveCard", draggedCard, 1, "success")
          ELSE /\ kanban_cards' = UpdateCardPosition(kanban_cards, draggedCard,
                                                     targetPosition)
               /\ lastOp' = Op("updateCardPosition", draggedCard, 1, "success")
       /\ cards' = FetchCards(kanban_cards', id)
  /\ UNCHANGED <<kanban_boards, patients, surgeries, id, now, filters, requests, pc>>

\* delete from kanban_cards where id = cardId
DeleteCardRowsCompacting(rows, cardId) ==
  LET gone == {c \in rows : c.id = cardId}
      Behind(c) == \E g \in gone : /\ g.board_id = c.board_id
                                    /\ g.column_name = c.column_name
                                    /\ g.position < c.position
  IN {IF Behind(c) THEN [c EXCEPT !.position = c.position - 1] ELSE c : c \in rows \ gone}

DeleteCardRows(rows, cardId) == {c \in rows : c.id # cardId}

\* deleteCardMutation, from the menu of a rendered card
DeleteCard(cardId) ==
  /\ id # NoBoard
  /\ \E card \in Rendered : card.id = cardId
  /\ kanban_cards' = DeleteCardRows(kanban_cards, cardId)
  /\ cards' = FetchCards(kanban_cards', id)
  /\ lastOp' = Op("deleteCard", cardId, 1, "success")
  /\ UNCHANGED <<kanban_boards, patients, surgeries, id, now, filters, requests, pc>>

\* ------------------------------------------------------- surgeries and sync

\* surgeryStatusToKanbanColumn
SurgeryStatusToKanbanColumnSwapped(status) ==
  CASE status = "scheduled" -> "scheduled"
    [] status = "pending" -> "pending"
    [] status = "in_progress" -> "pending"
    [] status = "completed" -> "waiting"
    [] status = "cancelled" -> "operated"
    [] OTHER -> "none"

SurgeryStatusToKanbanColumn(status) ==
  CASE status = "scheduled" -> "scheduled"
    [] status = "pending" -> "pending"
    [] status = "in_progress" -> "pending"
    [] status = "completed" -> "operated"
    [] status = "cancelled" -> "waiting"
    [] OTHER -> "none"

\* statusToColumn of the edit dialog, with its fallback
StatusToColumn(status) ==
  LET col == SurgeryStatusToKanbanColumn(status)
  IN IF col = "none" THEN "scheduled" ELSE col

\* the rows the resync's query can return: not completed, not cancelled, ordered
\* by scheduled_date ascending (NULLs last, equal dates in any order), limit 1
NextSurgeryCandidates(rows, patientId) ==
  LET q == {s \in rows : /\ s.patient_id = patientId
                         /\ s.status # "completed"
                         /\ s.status # "cancelled"}
      dated == {s \in q : s.scheduled_date # NullDate}
  IN IF dated # {}
     THEN {s \in dated : \A t \in dated : s.scheduled_date <= t.scheduled_date}
     ELSE q

\* newColumn of the resync for the row its query returned
NewColumnNoDateCheck(nextSurgery, t) ==
  LET col == SurgeryStatusToKanbanColumn(nextSurgery.status)
  IN IF col = "none" THEN "waiting" ELSE col

NewColumn(nextSurgery, t) ==
  IF /\ nextSurgery.scheduled_date # NullDate
     /\ nextSurgery.scheduled_date < t
     /\ nextSurgery.status = "scheduled"
  THEN "pending"
  ELSE LET col == SurgeryStatusToKanbanColumn(nextSurgery.status)
       IN IF col = "none" THEN "waiting" ELSE col

\* newColumn of the resync: "waiting" unless the query returned a row
ResyncColumn(found, t) ==
  IF found = {} THEN "waiting" ELSE NewColumn(CHOOSE s \in found : TRUE, t)

\* .limit(1).maybeSingle(): no row, or one of the first rows
MaybeSingle(cand) == IF cand = {} THEN {{}} ELSE {{s} : s \in cand}

\* update kanban_cards set column_name = col where patient_id = patientId
SetPatientColumn(rows, patientId, col) ==
  {IF c.patient_id = patientId THEN [c EXCEPT !.column_name = col] ELSE c : c \in rows}

\* syncPatientKanbanWithSurgery(patientId); it invalidates no query
SyncPatientKanbanWithSurgery(patientId) ==
  /\ patientId \in DOMAIN patients
  /\ \E found \in MaybeSingle(NextSurgeryCandidates(surgeries, patientId)) :
       kanban_cards' = SetPatientColumn(kanban_cards, patientId, ResyncColumn(found, now))
  /\ lastOp' = Op("syncPatient", patientId, 2, "success")
  /\ UNCHANGED <<kanban_boards, patients, surgeries, id, cards, now, filters, requests, pc>>

\* addSurgeryMutation: one insert into surgeries
AddSurgery(patientId, status, date) ==
  /\ patientId \in DOMAIN patients
  /\ HasFreshSurgeryId
  /\ surgeries' = surgeries \cup
       {[id |-> FreshSurgeryId, patient_id |-> patientId, status |-> status,
         scheduled_date |-> date]}
  /\ lastOp' = Op("addSurgery", patientId, 1, "success")
  /\ UNCHANGED <<kanban_boards, patients, kanban_cards, id, cards, now, filters, requests, pc>>

\* the card write of updateSurgeryMutation
EditSurgeryCardWrite(rows, patientId, status, date) ==
  {IF c.patient_id = patientId
   THEN [c EXCEPT !.column_name = StatusToColumn(status), !.scheduled_date = date]
   ELSE c : c \in rows}

\* the outcome of updateSurgeryMutation: it throws on the error of the surgery
\* update and does not look at the answer of the card update
EditSurgeryResultChecked(fail) == IF fail = "none" THEN "success" ELSE "error"

EditSurgeryResult(fail) == IF fail = "surgery" THEN "error" ELSE "success"

EditSurgeryFailures == {"none", "surgery", "cards"}

\* updateSurgeryMutation of the edit dialog, opened from a rendered card's
\* dialog, with the store failing the call fail names
EditSurgeryRun(surgeryId, status, date, fail) ==
  /\ id # NoBoard
  /\ \E s \in surgeries :
       /\ s.id = surgeryId
       /\ \E card \in Rendered : card.patient_id = s.patient_id
       /\ IF fail = "surgery"
          THEN /\ UNCHANGED <<surgeries, kanban_cards, cards>>
               /\ lastOp' = OpF("editSurgery", s.patient_id, 1, EditSurgeryResult(fail), fail)
          ELSE /\ surgeries' = (surgeries \ {s}) \cup
                    {[s EXCEPT !.status = status, !.scheduled_date = date]}
               /\ kanban_cards' =
                    IF fail = "cards" THEN kanban_cards
                    ELSE EditSurgeryCardWrite(kanban_cards, s.patient_id, status, date)
               /\ cards' = FetchCards(kanban_cards', id)
               /\ lastOp' = OpF("editSurgery", s.patient_id, 2, EditSurgeryResult(fail), fail)
  /\ UNCHANGED <<kanban_boards, patients, id, now, filters, requests, pc>>

\* updateSurgeryMutation with a working store
EditSurgery(surgeryId, status, date) == EditSurgeryRun(surgeryId, status, date, "none")

\* the sweep's query: status = scheduled and scheduled_date < now
OverdueSurgeriesNotStrict(rows, t) ==
  {s \in rows : /\ s.status = "scheduled"
                /\ s.scheduled_date # NullDate
                /\ s.scheduled_date <= t}

OverdueSurgeries(rows, t) ==
  {s \in rows : /\ s.status = "scheduled"
                /\ s.scheduled_date # NullDate
                /\ s.scheduled_date < t}

\* the sweep's card update: patient_id in patientIds and column_name = scheduled
SweepCardsRespectingOverride(rows, patientIds) ==
  {IF c.patient_id \in patientIds /\ c.column_name = "scheduled" /\ ~c.manual_override
   THEN [c EXCEPT !.column_name = "pending"] ELSE c : c \in rows}

SweepCards(rows, patientIds) ==
  {IF c.patient_id \in patientIds /\ c.column_name = "scheduled"
   THEN [c EXCEPT !.column_name = "pending"] ELSE c : c \in rows}

\* the sweep's surgery update: status = pending where id in ids
SweepSurgeries(rows, ids) ==
  {IF s.id \in ids THEN [s EXCEPT !.status = "pending"] ELSE s : s \in rows}

\* the outcome of updateOverdueSurgeries: every path returns, none throws
SweepResultRaising(fail) == IF fail = "none" THEN "success" ELSE "error"

SweepResult(fail) == "success"

SweepFailures == {"none", "read", "surgeries", "cards"}

\* updateOverdueSurgeries, run when the application mounts, with the store
\* failing the call fail names
UpdateOverdueSurgeriesRun(fail) ==
  LET overdueSurgeries == OverdueSurgeries(surgeries, now)
      ids == {s.id : s \in overdueSurgeries}
      patientIds == {s.patient_id : s \in overdueSurgeries}
  IN /\ fail \in {"surgeries", "cards"} => overdueSurgeries # {}
     /\ IF fail = "read" \/ overdueSurgeries = {}
        THEN /\ UNCHANGED <<surgeries, kanban_cards, cards>>
             /\ lastOp' = OpF("sweep", 0, 1, SweepResult(fail), fail)
        ELSE IF fail = "surgeries"
        THEN /\ UNCHANGED <<surgeries, kanban_cards, cards>>
             /\ lastOp' = OpF("sweep", 0, 2, SweepResult(fail), fail)
        ELSE /\ surgeries' = SweepSurgeries(surgeries, ids)
             /\ kanban_cards' = IF fail = "cards" THEN kanban_cards
                                ELSE SweepCards(kanban_cards, patientIds)
             /\ cards' = IF id = NoBoard THEN cards ELSE FetchCards(kanban_cards', id)
             /\ lastOp' = OpF("sweep", 0, 3, SweepResult(fail), fail)
     /\ UNCHANGED <<kanban_boards, patients, id, now, filters, requests, pc>>

\* updateOverdueSurgeries with a working store
UpdateOverdueSurgeries == UpdateOverdueSurgeriesRun("none")

\* time passes
Tick ==
  /\ now <= MaxDate
  /\ now' = now + 1
  /\ lastOp' = Op("tick", 0, 0, "success")
  /\ UNCHANGED <<kanban_boards, patients, kanban_cards, surgeries, id, cards, filters, requests, pc>>

\* the board page's card query refetches (window focus, remount)
Refetch ==
  /\ id # NoBoard
  /\ cards # FetchCards(kanban_cards, id)
  /\ cards' = FetchCards(kanban_cards, id)
  /\ lastOp' = Op("refetch", id, 1, "success")
  /\ UNCHANGED <<kanban_boards, patients, kanban_cards, surgeries, id, now, filters, requests, pc>>

\* ------------------------------------------------------------- board import

\* the default columns_config of the import (data.columns_config || [...])
ImportDefaultColumns == <<"waiting", "scheduled", "operated", "follow_up">>

\* the loop of importMutation over data.cards, on the board b it has inserted:
\* look the patient up by MRN, insert a patient when none was found, insert the
\* card; a rejected insert throws and leaves what was written before it.
\* fits is FALSE when the loop needs more ids than the model has.
RECURSIVE ImportCards(_, _, _, _, _)
ImportCards(b, pats, rows, list, calls) ==
  IF list = <<>>
  THEN [patients |-> pats, cards |-> rows, ok |-> TRUE, fits |-> TRUE, calls |-> calls]
  ELSE LET card == Head(list)
           existing == {p \in DOMAIN pats : card.mrn # NoMrn /\ pats[p] = card.mrn}
           freeP == PatientIds \ DOMAIN pats
           freeC == CardIds \ {c.id : c \in rows}
           lookups == IF card.mrn # NoMrn THEN 1 ELSE 0
       IN IF existing = {} /\ freeP = {}
          THEN [patients |-> pats, cards |-> rows, ok |-> FALSE, fits |-> FALSE,
                calls |-> calls]
          ELSE LET patientId == IF existing = {} THEN Min(freeP)
                                ELSE CHOOSE p \in existing : TRUE
                   pats2 == IF existing = {}
                            THEN [p \in DOMAIN pats \cup {patientId} |->
                                    IF p = patientId THEN card.mrn ELSE pats[p]]
                            ELSE pats
                   calls2 == calls + lookups + (IF existing = {} THEN 1 ELSE 0) + 1
               IN IF ~CardInsertAccepted(rows, {b}, DOMAIN pats2, b, patientId)
                  THEN [patients |-> pats2, cards |-> rows, ok |-> FALSE, fits |-> TRUE,
                        calls |-> calls2]
                  ELSE IF freeC = {}
                  THEN [patients |-> pats2, cards |-> rows, ok |-> FALSE, fits |-> FALSE,
                        calls |-> calls2]
                  ELSE ImportCards(b, pats2,
                         rows \cup {NewCard(Min(freeC), b, patientId,
                                            IF card.column_name = "" THEN "waiting"
                                            ELSE card.column_name,
                                            card.position)},
                         Tail(list), calls2)

\* importMutation: insert the board, import the cards, invalidate the board and
\* patient lists (not the card list of the open board)
Import(data) ==
  /\ HasFreshBoardId
  /\ LET r == ImportCards(FreshBoardId, patients, kanban_cards, data.cards, 1)
     IN /\ r.fits
        /\ kanban_boards' = [b \in DOMAIN kanban_boards \cup {FreshBoardId} |->
                               IF b = FreshBoardId THEN data.columns_config
                               ELSE kanban_boards[b]]
        /\ patients' = r.patients
        /\ kanban_cards' = r.cards
        /\ lastOp' = Op("import", FreshBoardId, r.calls,
                        IF r.ok THEN "success" ELSE "error")
  /\ UNCHANGED <<surgeries, id, cards, now, filters, requests, pc>>

\* the import files tried: cards with a column ("" when the file has none), a
\* position (0 when the file has none) and an MRN (NoMrn when the file has none)
ImportCardInputs ==
  [column_name : {"", "scheduled"}, position : 0..MaxImportPos, mrn : Mrns \cup {NoMrn}]

ImportInputs ==
  [columns_config : {ImportDefaultColumns},
   cards : UNION {[1..n -> ImportCardInputs] : n \in 0..MaxImportCards}]

\* --------------------------------------------------------- the whole program
Next ==
  \/ CreateBoard
  \/ \E mrn \in Mrns \cup {NoMrn} : AddPatient(mrn)
  \/ \E b \in BoardIds : OpenBoard(b)
  \/ \E col \in Range(DefaultColumns), p \in PatientIds : AddCard(col, p)
  \/ \E col \in Range(DefaultColumns), mrn \in Mrns \cup {NoMrn} : CreatePatientInKanban(col, mrn)
  \/ \E c \in CardIds, col \in Range(DefaultColumns) : DropOnColumn(c, col)
  \/ \E c \in CardIds, t \in CardIds, pos \in 0..MaxCards : DropOnCard(c, t, pos)
  \/ \E c \in CardIds : DeleteCard(c)
  \/ \E data \in ImportInputs : Import(data)
  \/ \E p \in PatientIds, st \in AddSurgeryStatuses, d \in Dates \cup {NullDate} :
       AddSurgery(p, st, d)
  \/ \E sid \in SurgeryIds, st \in SurgeryStatuses, d \in Dates \cup {NullDate} :
       EditSurgery(sid, st, d)
  \/ UpdateOverdueSurgeries
  \/ \E p \in PatientIds : SyncPatientKanbanWithSurgery(p)
  \/ Tick
  \/ Refetch

Spec == Init /\ [][Next]_vars

\* ------------------------------------------------- the board page in use
\* Two boards with the default columns and one patient exist; board 1 is open.
InitBoard ==
  /\ kanban_boards = [b \in BoardIds |-> DefaultColumns]
  /\ patients = [p \in {1} |-> NoMrn]
  /\ kanban_cards = {}
  /\ surgeries = {}
  /\ id = 1
  /\ cards = {}
  /\ now = 1
  /\ lastOp = Op("init", 0, 0, "success")
  /\ filters = NoFilters
  /\ requests = <<>>
  /\ pc = Idle

NextBoard ==
  \/ \E b \in BoardIds : OpenBoard(b)
  \/ \E col \in Range(DefaultColumns), p \in PatientIds : AddCard(col, p)
  \/ \E col \in Range(DefaultColumns) : CreatePatientInKanban(col, NoMrn)
  \/ \E c \in CardIds, col \in Range(DefaultColumns) : DropOnColumn(c, col)
  \/ \E c \in CardIds, t \in CardIds, pos \in 0..MaxCards : DropOnCard(c, t, pos)
  \/ \E c \in CardIds : DeleteCard(c)

SpecBoard == InitBoard /\ [][NextBoard]_vars

\* ------------------------------------------------ cards are only ever added
NextAppend ==
  \/ \E b \in BoardIds : OpenBoard(b)
  \/ \E col \in Range(DefaultColumns), p \in PatientIds : AddCard(col, p)
  \/ \E col \in Range(DefaultColumns) : CreatePatientInKanban(col, NoMrn)

SpecAppend == InitBoard /\ [][NextAppend]_vars

\* ------------------------------- every operation that writes kanban_cards
\* One board and a patient with an overdue scheduled surgery exist.
InitCards ==
  /\ kanban_boards = [b \in {1} |-> DefaultColumns]
  /\ patients = [p \in {1} |-> 1]
  /\ kanban_cards = {}
  /\ surgeries = {[id |-> 1, patient_id |-> 1, status |-> "scheduled",
                   scheduled_date |-> 1]}
  /\ id = 1
  /\ cards = {}
  /\ now = 2
  /\ lastOp = Op("init", 0, 0, "success")
  /\ filters = NoFilters
  /\ requests = <<>>
  /\ pc = Idle

NextCards ==
  \/ \E b \in BoardIds : OpenBoard(b)
  \/ \E col \in Range(DefaultColumns), p \in PatientIds : AddCard(col, p)
  \/ \E col \in Range(DefaultColumns) : CreatePatientInKanban(col, NoMrn)
  \/ \E c \in CardIds, col \in Range(DefaultColumns) : DropOnColumn(c, col)
  \/ \E c \in CardIds, t \in CardIds, pos \in 0..MaxCards : DropOnCard(c, t, pos)
  \/ \E c \in CardIds : DeleteCard(c)
  \/ \E data \in ImportInputs : Import(data)
  \/ UpdateOverdueSurgeries
  \/ \E p \in PatientIds : SyncPatientKanbanWithSurgery(p)
  \/ Refetch

SpecCards == InitCards /\ [][NextCards]_vars

\* ------------------------------------------------------ the overdue sweep
InitSync ==
  /\ kanban_boards = [b \in BoardIds |-> DefaultColumns]
  /\ patients = [p \in {1} |-> NoMrn]
  /\ kanban_cards = {}
  /\ surgeries = {}
  /\ id = 1
  /\ cards = {}
  /\ now = 1
  /\ lastOp = Op("init", 0, 0, "success")
  /\ filters = NoFilters
  /\ requests = <<>>
  /\ pc = Idle

NextSweep ==
  \/ \E b \in BoardIds : OpenBoard(b)
  \/ \E col \in Range(DefaultColumns), p \in PatientIds : AddCard(col, p)
  \/ \E c \in CardIds, col \in Range(DefaultColumns) : DropOnColumn(c, col)
  \/ \E p \in PatientIds, st \in AddSurgeryStatuses, d \in Dates \cup {NullDate} :
       AddSurgery(p, st, d)
  \/ UpdateOverdueSurgeries
  \/ Tick

SpecSweep == InitSync /\ [][NextSweep]_vars

\* ------------------------------------- the surgery dialogs and the resync
NextSync ==
  \/ \E b \in BoardIds : OpenBoard(b)
  \/ \E col \in Range(DefaultColumns), p \in PatientIds : AddCard(col, p)
  \/ \E c \in CardIds, col \in Range(DefaultColumns) : DropOnColumn(c, col)
  \/ \E p \in PatientIds, st \in AddSurgeryStatuses, d \in Dates \cup {NullDate} :
       AddSurgery(p, st, d)
  \/ \E sid \in SurgeryIds, st \in SurgeryStatuses, d \in Dates \cup {NullDate} :
       EditSurgery(sid, st, d)
  \/ \E p \in PatientIds : SyncPatientKanbanWithSurgery(p)
  \/ Tick
  \/ Refetch

SpecSync == InitSync /\ [][NextSync]_vars

\* ---------------------------------------------- the derivation on its own
\* Any surgery row the resync's query can hand to the derivation, or none, at
\* any time of the clock.
DeriveDates == 1..MaxDeriveDate

InitDerive ==
  /\ kanban_boards = <<>>
  /\ patients = [p \in {1} |-> NoMrn]
  /\ kanban_cards = {}
  /\ surgeries \in {{}} \cup
       {{[id |-> 1, patient_id |-> 1, status |-> st, scheduled_date |-> d]} :
          st \in SurgeryStatuses, d \in DeriveDates \cup {NullDate}}
  /\ id = NoBoard
  /\ cards = {}
  /\ now \in DeriveDates
  /\ lastOp = Op("init", 0, 0, "success")
  /\ filters = NoFilters
  /\ requests = <<>>
  /\ pc = Idle

\* evaluate the derivation for the row (or none)
Derive ==
  /\ lastOp.op = "init"
  /\ lastOp' = Op("newColumn", 1, 0, ResyncColumn(surgeries, now))
  /\ UNCHANGED <<kanban_boards, patients, kanban_cards, surgeries, id, cards, now, filters, requests, pc>>

NextDerive == Derive

SpecDerive == InitDerive /\ [][NextDerive]_vars

\* ------------------------------------------------- the listing of a column

\* matchesName || matchesMrn || matchesSurgeryType, for the one searchable text
\* the rows carry: the patient's MRN
MatchesSearch(card, query) ==
  /\ card.patient_id \in DOMAIN patients
  /\ patients[card.patient_id] # NoMrn
  /\ patients[card.patient_id] = query

\* the date range filter of getCardsForColumn
PassesDateKeepingUndated(card, f) ==
  IF card.scheduled_date # NullDate
  THEN /\ ~(f.dateFrom # NullDate /\ card.scheduled_date < f.dateFrom)
       /\ ~(f.dateTo # NullDate /\ card.scheduled_date > f.dateTo)
  ELSE TRUE

PassesDate(card, f) ==
  IF card.scheduled_date # NullDate
  THEN /\ ~(f.dateFrom # NullDate /\ card.scheduled_date < f.dateFrom)
       /\ ~(f.dateTo # NullDate /\ card.scheduled_date > f.dateTo)
  ELSE ~(f.dateFrom # NullDate \/ f.dateTo # NullDate)

\* the second filter callback of getCardsForColumn
PassesFilters(card, f) ==
  /\ (f.search # NoMrn => MatchesSearch(card, f.search))
  /\ ~(f.urgency # "all" /\ card.priority # f.urgency)
  /\ PassesDate(card, f)

\* .sort((a, b) => a.position - b.position) on the rows as the store returned
\* them: ascending positions, equal positions in the store's order
SortedByPosition(S) ==
  {q \in [1..Cardinality(S) -> S] :
     /\ \A i \in DOMAIN q, j \in DOMAIN q : i # j => q[i] # q[j]
     /\ \A i \in DOMAIN q, j \in DOMAIN q : i < j => q[i].position <= q[j].position}

\* getCardsForColumn(columnId): the lists it can return
GetCardsForColumn(columnId) ==
  LET Keep(card) == PassesFilters(card, filters)
  IN {SelectSeq(q, Keep) : q \in SortedByPosition(CardsInColumn(columnId))}

\* a column of the board page is rendered with its list
RenderColumn(columnId) ==
  /\ id # NoBoard
  /\ columnId \in Columns
  /\ \E list \in GetCardsForColumn(columnId) :
       lastOp' = Op("getCardsForColumn", columnId, 0, list)
  /\ UNCHANGED <<kanban_boards, patients, kanban_cards, surgeries, id, cards, now,
                 filters, requests, pc>>

\* the filter values tried
ListDates == 1..MaxListDate

FilterInputs ==
  [search : Mrns \cup {NoMrn}, urgency : {"all", "urgent"},
   dateFrom : ListDates \cup {NullDate}, dateTo : ListDates \cup {NullDate}]

\* the cards tried: card n is patient n's card on board 1, in one of two columns,
\* at any position, with any priority and date
ListCardInputs ==
  [column_name : {"waiting", "scheduled"}, position : 0..(MaxCards - 1),
   priority : {"normal", "urgent"}, scheduled_date : ListDates \cup {NullDate}]

ListCard(n, a) ==
  [NewCard(n, 1, n, a.column_name, a.position)
     EXCEPT !.priority = a.priority, !.scheduled_date = a.scheduled_date]

\* Board 1 is open on any such cards, with any filter set.
InitList ==
  /\ kanban_boards = [b \in {1} |-> DefaultColumns]
  /\ patients = [p \in PatientIds |-> IF p = 1 THEN 1 ELSE NoMrn]
  /\ \E n \in 0..MaxCards : \E a \in [1..n -> ListCardInputs] :
       kanban_cards = {ListCard(i, a[i]) : i \in 1..n}
  /\ surgeries = {}
  /\ id = 1
  /\ cards = FetchCards(kanban_cards, 1)
  /\ now = 1
  /\ lastOp = Op("init", 0, 0, "success")
  /\ filters \in FilterInputs
  /\ requests = <<>>
  /\ pc = Idle

NextList == \E col \in Range(DefaultColumns) : RenderColumn(col)

SpecList == InitList /\ [][NextList]_vars

\* --------------------------------------------------------- the card dialog

\* updatePriorityMutation of the dialog of a rendered card
UpdatePriorityClearingOverride(rows, cardId, priority) ==
  {IF c.id = cardId THEN [c EXCEPT !.priority = priority, !.manual_override = FALSE]
   ELSE c : c \in rows}

UpdatePriorityWrite(rows, cardId, priority) ==
  {IF c.id = cardId THEN [c EXCEPT !.priority = priority] ELSE c : c \in rows}

UpdatePriority(cardId, priority) ==
  /\ id # NoBoard
  /\ \E card \in Rendered : card.id = cardId
  /\ kanban_cards' = UpdatePriorityWrite(kanban_cards, cardId, priority)
  /\ cards' = FetchCards(kanban_cards', id)
  /\ lastOp' = Op("updatePriority", cardId, 1, "success")
  /\ UNCHANGED <<kanban_boards, patients, surgeries, id, now, filters, requests, pc>>

\* JSON.stringify(items) of a checklist
JSONStringify(items) == <<"[">> \o items \o <<"]">>

\* updateChecklistMutation: writes the notes; it invalidates the card's detail
\* query, not the board's card list
UpdateChecklist(cardId, items) ==
  /\ id # NoBoard
  /\ \E card \in Rendered : card.id = cardId
  /\ kanban_cards' = {IF c.id = cardId THEN [c EXCEPT !.notes = JSONStringify(items)]
                      ELSE c : c \in kanban_cards}
  /\ lastOp' = Op("updateChecklist", cardId, 1, "success")
  /\ UNCHANGED <<kanban_boards, patients, surgeries, id, cards, now, filters, requests, pc>>

\* the checklists tried
ChecklistInputs == {<<"item">>}

\* ------------------------- everything that writes a card that exists
\* One board is open; two patients exist, one with a scheduled surgery that is
\* overdue.  Cards are added to column scheduled and dragged between waiting and
\* scheduled; surgeries are saved as scheduled or completed.
InitLatch ==
  /\ kanban_boards = [b \in {1} |-> DefaultColumns]
  /\ patients = [p \in PatientIds |-> NoMrn]
  /\ kanban_cards = {}
  /\ surgeries = {[id |-> 1, patient_id |-> 1, status |-> "scheduled",
                   scheduled_date |-> 1]}
  /\ id = 1
  /\ cards = {}
  /\ now = 2
  /\ lastOp = Op("init", 0, 0, "success")
  /\ filters = NoFilters
  /\ requests = <<>>
  /\ pc = Idle

NextLatch ==
  \/ \E p \in PatientIds : AddCard("scheduled", p)
  \/ \E c \in CardIds, col \in {"waiting", "scheduled"} : DropOnColumn(c, col)
  \/ \E c \in CardIds, t \in CardIds, pos \in 0..MaxCards : DropOnCard(c, t, pos)
  \/ \E c \in CardIds : UpdatePriority(c, "urgent")
  \/ \E c \in CardIds, items \in ChecklistInputs : UpdateChecklist(c, items)
  \/ \E sid \in SurgeryIds, st \in {"scheduled", "completed"}, d \in Dates :
       EditSurgery(sid, st, d)
  \/ UpdateOverdueSurgeries
  \/ \E p \in PatientIds : SyncPatientKanbanWithSurgery(p)
  \/ Refetch

SpecLatch == InitLatch /\ [][NextLatch]_vars

\* ------------------------------------------------- the columns of a board

\* columns.findIndex(c => c.id === columnId), counted from 1; 0 when not found
FindIndex(columns, columnId) ==
  IF \E i \in DOMAIN columns : columns[i] = columnId
  THEN Min({i \in DOMAIN columns : columns[i] = columnId})
  ELSE 0

\* newColumns of handleColumnDrop: splice the dragged column out, splice it in at
\* the target's index
SpliceColumnsKeepingDragged(columns, draggedIndex, targetIndex) ==
  SubSeq(columns, 1, targetIndex - 1) \o <<columns[draggedIndex]>> \o
  SubSeq(columns, targetIndex, Len(columns))

SpliceColumns(columns, draggedIndex, targetIndex) ==
  LET removed == columns[draggedIndex]
      rest == SubSeq(columns, 1, draggedIndex - 1) \o
              SubSeq(columns, draggedIndex + 1, Len(columns))
  IN SubSeq(rest, 1, targetIndex - 1) \o <<removed>> \o
     SubSeq(rest, targetIndex, Len(rest))

\* columns.filter(c => c.id !== columnId)
FilterColumnsUpTo(columns, columnId) ==
  SubSeq(columns, 1, FindIndex(columns, columnId) - 1)

FilterColumns(columns, columnId) ==
  LET Keep(c) == c # columnId IN SelectSeq(columns, Keep)

\* updateColumnsMutation: one update of the board's columns_config
UpdateColumns(name, columns) ==
  /\ kanban_boards' = [kanban_boards EXCEPT ![id] = columns]
  /\ lastOp' = Op(name, id, 1, "success")
  /\ UNCHANGED <<patients, kanban_cards, surgeries, id, cards, now, filters, requests, pc>>

\* handleColumnDrop(targetColumnId) with draggedColumn set
ColumnDrop(draggedColumn, targetColumnId) ==
  /\ id \in DOMAIN kanban_boards
  /\ draggedColumn \in Columns
  /\ targetColumnId \in Columns
  /\ draggedColumn # targetColumnId
  /\ LET columns == kanban_boards[id]
         draggedIndex == FindIndex(columns, draggedColumn)
         targetIndex == FindIndex(columns, targetColumnId)
     IN UpdateColumns("columnDrop", SpliceColumns(columns, draggedIndex, targetIndex))

\* newColumnName.toLowerCase().replace(/\s+/g, "_") for the names tried
ColumnNames == {"Pending", "Waiting"}

ColumnId(name) ==
  CASE name = "Pending" -> "pending"
    [] name = "Waiting" -> "waiting"

\* handleAddColumn
AddColumn(name) ==
  /\ id \in DOMAIN kanban_boards
  /\ Len(kanban_boards[id]) < MaxColumns
  /\ UpdateColumns("addColumn", Append(kanban_boards[id], ColumnId(name)))

\* handleEditColumn: name and colour of the column change, its id does not
EditColumn(columnId) ==
  /\ id \in DOMAIN kanban_boards
  /\ columnId \in Columns
  /\ UpdateColumns("editColumn", [i \in DOMAIN kanban_boards[id] |-> kanban_boards[id][i]])

\* handleDeleteColumn(columnId)
DeleteColumn(columnId) ==
  /\ id \in DOMAIN kanban_boards
  /\ columnId \in Columns
  /\ UpdateColumns("deleteColumn", FilterColumns(kanban_boards[id], columnId))

ColumnIds == Range(DefaultColumns) \cup {ColumnId(n) : n \in ColumnNames}

NextColumns ==
  \/ \E col \in ColumnIds, p \in PatientIds : AddCard(col, p)
  \/ \E c \in CardIds, col \in ColumnIds : DropOnColumn(c, col)
  \/ \E a \in ColumnIds, b \in ColumnIds : ColumnDrop(a, b)
  \/ \E n \in ColumnNames : AddColumn(n)
  \/ \E col \in ColumnIds : EditColumn(col)
  \/ \E col \in ColumnIds : DeleteColumn(col)

SpecColumns == InitSync /\ [][NextColumns]_vars

\* ------------------------------------- moves whose answers are still out

\* handleCardDrop(columnId) up to moveCardMutation.mutate: the request leaves
\* for the store; the page does not wait for the answer and keeps its card list
IssueMove(draggedCard, columnId) ==
  /\ id # NoBoard
  /\ columnId \in Columns
  /\ Len(requests) < MaxMoves
  /\ \E card \in Rendered :
       /\ card.id = draggedCard
       /\ card.column_name # columnId
  /\ requests' = Append(requests,
       [cardId |-> draggedCard, newColumn |-> columnId,
        newPosition |-> AddCardPosition(columnId), applied |-> FALSE])
  /\ lastOp' = Op("moveCardIssued", draggedCard, 1, "pending")
  /\ UNCHANGED <<kanban_boards, patients, kanban_cards, surgeries, id, cards, now, filters, pc>>

\* the store executes one of the updates that are out, in whatever order they
\* reach it; onSuccess then invalidates the card list
StoreApply(i) ==
  /\ i \in DOMAIN requests
  /\ ~requests[i].applied
  /\ kanban_cards' = MoveCardUpdate(kanban_cards, requests[i].cardId,
                                    requests[i].newColumn, requests[i].newPosition)
  /\ requests' = [requests EXCEPT ![i].applied = TRUE]
  /\ cards' = IF id = NoBoard THEN cards ELSE FetchCards(kanban_cards', id)
  /\ lastOp' = Op("moveCard", requests[i].cardId, 1, "success")
  /\ UNCHANGED <<kanban_boards, patients, surgeries, id, now, filters, pc>>

NextAsync ==
  \/ \E b \in BoardIds : OpenBoard(b)
  \/ \E col \in Range(DefaultColumns), p \in PatientIds : AddCard(col, p)
  \/ \E c \in CardIds, col \in Range(DefaultColumns) : IssueMove(c, col)
  \/ \E i \in 1..MaxMoves : StoreApply(i)

SpecAsync == InitSync /\ [][NextAsync]_vars

\* -------------------------------------------------------- board deletion

\* kanban_cards.board_id REFERENCES kanban_boards(id) ON DELETE CASCADE: the rows
\* left when board b's row is deleted
BoardDeleteCascadeNone(rows, b) == rows

BoardDeleteCascade(rows, b) == {c \in rows : c.board_id # b}

\* delete from kanban_cards where board_id = boardId
DeleteCardsOfBoardNone(rows, boardId) == rows

DeleteCardsOfBoard(rows, boardId) == {c \in rows : c.board_id # boardId}

DeleteBoardFailures == {"none", "cards", "board"}

\* deleteBoardMutation of the sidebar: delete the board's cards (the answer is
\* not looked at), delete the board (its error is thrown), then refresh the
\* sidebar and leave the board's page if it is the one open
DeleteBoard(boardId, fail) ==
  /\ boardId \in DOMAIN kanban_boards
  /\ LET afterCards == IF fail = "cards" THEN kanban_cards
                       ELSE DeleteCardsOfBoard(kanban_cards, boardId)
     IN IF fail = "board"
        THEN /\ kanban_cards' = afterCards
             /\ UNCHANGED <<kanban_boards, id, cards>>
             /\ lastOp' = OpF("deleteBoard", boardId, 2, "error", fail)
        ELSE /\ kanban_cards' = BoardDeleteCascade(afterCards, boardId)
             /\ kanban_boards' = [b \in DOMAIN kanban_boards \ {boardId} |-> kanban_boards[b]]
             /\ id' = IF id = boardId THEN NoBoard ELSE id
             /\ cards' = IF id = boardId THEN {} ELSE cards
             /\ lastOp' = OpF("deleteBoard", boardId, 2, "success", fail)
  /\ UNCHANGED <<patients, surgeries, now, filters, requests, pc>>

\* ------------------------------------------------- a store that can fail

\* the sweep over a store that can fail any of its calls
NextSweepFail ==
  \/ \E b \in BoardIds : OpenBoard(b)
  \/ \E col \in {"waiting", "scheduled"}, p \in PatientIds : AddCard(col, p)
  \/ \E p \in PatientIds, d \in Dates \cup {NullDate} : AddSurgery(p, "scheduled", d)
  \/ \E fail \in SweepFailures : UpdateOverdueSurgeriesRun(fail)
  \/ Tick

SpecSweepFail == InitSync /\ [][NextSweepFail]_vars

\* the edit dialog over a store that can fail any of its calls
NextEditFail ==
  \/ \E col \in {"waiting", "scheduled"}, p \in PatientIds : AddCard(col, p)
  \/ \E p \in PatientIds, d \in Dates \cup {NullDate} : AddSurgery(p, "scheduled", d)
  \/ \E sid \in SurgeryIds, st \in SurgeryStatuses, d \in Dates \cup {NullDate},
        fail \in EditSurgeryFailures : EditSurgeryRun(sid, st, d, fail)

SpecEditFail == InitSync /\ [][NextEditFail]_vars

\* board deletion over a store that can fail any of its calls; two boards and
\* two patients exist, one patient with a surgery
InitDeleteBoard ==
  /\ kanban_boards = [b \in BoardIds |-> DefaultColumns]
  /\ patients = [p \in PatientIds |-> NoMrn]
  /\ kanban_cards = {}
  /\ surgeries = {[id |-> 1, patient_id |-> 1, status |-> "scheduled",
                   scheduled_date |-> 1]}
  /\ id = 1
  /\ cards = {}
  /\ now = 1
  /\ lastOp = Op("init", 0, 0, "success")
  /\ filters = NoFilters
  /\ requests = <<>>
  /\ pc = Idle

NextDeleteBoard ==
  \/ \E b \in BoardIds : OpenBoard(b)
  \/ \E col \in {"waiting", "scheduled"}, p \in PatientIds : AddCard(col, p)
  \/ \E b \in BoardIds, fail \in DeleteBoardFailures : DeleteBoard(b, fail)
  \/ Refetch

SpecDeleteBoard == InitDeleteBoard /\ [][NextDeleteBoard]_vars

\* ------------------------------------------- a second session on the store

\* deleteCardMutation run by another session: the row goes from the shared
\* store, this page's card list keeps it until it refetches
RemoteDeleteCard(cardId) ==
  /\ \E c \in kanban_cards : c.id = cardId
  /\ kanban_cards' = {c \in kanban_cards : c.id # cardId}
  /\ lastOp' = Op("remoteDeleteCard", cardId, 1, "success")
  /\ UNCHANGED <<kanban_boards, patients, surgeries, id, cards, now, filters, requests, pc>>

\* two sessions on one store: both boards exist, both patients are
\* registered, this page has board 1 open
InitShared ==
  /\ kanban_boards = [b \in BoardIds |-> DefaultColumns]
  /\ patients = [p \in PatientIds |-> NoMrn]
  /\ kanban_cards = {}
  /\ surgeries = {}
  /\ id = 1
  /\ cards = {}
  /\ now = 1
  /\ lastOp = Op("init", 0, 0, "success")
  /\ filters = NoFilters
  /\ requests = <<>>
  /\ pc = Idle

NextShared ==
  \/ \E b \in BoardIds : OpenBoard(b)
  \/ \E col \in Range(DefaultColumns), p \in PatientIds : AddCard(col, p)
  \/ \E c \in CardIds, col \in Range(DefaultColumns) : DropOnColumn(c, col)
  \/ \E c \in CardIds, t \in CardIds, pos \in 0..MaxCards : DropOnCard(c, t, pos)
  \/ \E c \in CardIds : RemoteDeleteCard(c)
  \/ Refetch

SpecShared == InitShared /\ [][NextShared]_vars

\* ------------------------------------------------- cards removed by two sessions
\* Cards are added, reordered and removed on the open board while another
\* session removes cards too, so a card this page still shows may be gone.
NextRemove ==
  \/ \E b \in BoardIds : OpenBoard(b)
  \/ \E col \in {"waiting", "scheduled"}, p \in PatientIds : AddCard(col, p)
  \/ \E c \in CardIds, t \in CardIds, pos \in 0..MaxCards : DropOnCard(c, t, pos)
  \/ \E c \in CardIds : DeleteCard(c)
  \/ \E c \in CardIds : RemoteDeleteCard(c)
  \/ Refetch

SpecRemove == InitDeleteBoard /\ [][NextRemove]_vars

\* ------------------------------- handlers stopped between two store calls

\* the first store call of deleteBoardMutation has returned: the board's cards
\* are deleted, the delete of the board is still to come; read keeps the rows
\* that went
DeleteBoardCardsStep(boardId) ==
  /\ pc = Idle
  /\ boardId \in DOMAIN kanban_boards
  /\ kanban_cards' = DeleteCardsOfBoard(kanban_cards, boardId)
  /\ pc' = [op |-> "deleteBoard", at |-> 1, arg |-> boardId,
            read |-> kanban_cards \ kanban_cards']
  /\ lastOp' = Op("deleteBoardCards", boardId, 1, "pending")
  /\ UNCHANGED <<kanban_boards, patients, surgeries, id, cards, now, filters, requests>>

\* the second store call of deleteBoardMutation and its onSuccess
DeleteBoardRowStep ==
  /\ pc.op = "deleteBoard"
  /\ kanban_cards' = BoardDeleteCascade(kanban_cards, pc.arg)
  /\ kanban_boards' = [b \in DOMAIN kanban_boards \ {pc.arg} |-> kanban_boards[b]]
  /\ id' = IF id = pc.arg THEN NoBoard ELSE id
  /\ cards' = IF id = pc.arg THEN {} ELSE cards
  /\ pc' = Idle
  /\ lastOp' = Op("deleteBoard", pc.arg, 2, "success")
  /\ UNCHANGED <<patients, surgeries, now, filters, requests>>

\* the page is closed or the browser stops while a handler awaits a store
\* call: the rest of the handler never runs
Interrupt ==
  /\ pc # Idle
  /\ pc' = Idle
  /\ lastOp' = Op(pc.op, pc.arg, pc.at, "interrupted")
  /\ UNCHANGED <<kanban_boards, patients, kanban_cards, surgeries, id, cards, now,
                 filters, requests>>

\* board deletion call by call, with the board page in use in between
NextDeleteSteps ==
  \/ \E b \in BoardIds : OpenBoard(b)
  \/ \E col \in {"waiting", "scheduled"}, p \in PatientIds : AddCard(col, p)
  \/ \E b \in BoardIds : DeleteBoardCardsStep(b)
  \/ DeleteBoardRowStep
  \/ Interrupt
  \/ Refetch

SpecDeleteSteps == InitDeleteBoard /\ [][NextDeleteSteps]_vars

\* updateOverdueSurgeries up to its first await: the read has returned; without
\* overdue rows the handler returns, else it keeps the rows for its two updates
SweepReadStep ==
  /\ pc = Idle
  /\ LET overdueSurgeries == OverdueSurgeries(surgeries, now)
     IN IF overdueSurgeries = {}
        THEN /\ pc' = pc
             /\ lastOp' = Op("sweep", 0, 1, "success")
        ELSE /\ pc' = [op |-> "sweep", at |-> 1, arg |-> 0, read |-> overdueSurgeries]
             /\ lastOp' = Op("sweepRead", 0, 1, "pending")
  /\ UNCHANGED <<kanban_boards, patients, kanban_cards, surgeries, id, cards, now,
                 filters, requests>>

\* the second await: the update of the surgeries the read returned
SweepSurgeriesStep ==
  /\ pc.op = "sweep"
  /\ pc.at = 1
  /\ surgeries' = SweepSurgeries(surgeries, {s.id : s \in pc.read})
  /\ pc' = [pc EXCEPT !.at = 2]
  /\ lastOp' = Op("sweepSurgeries", 0, 2, "pending")
  /\ UNCHANGED <<kanban_boards, patients, kanban_cards, id, cards, now, filters, requests>>

\* the third await and the invalidations: the update of the cards of the
\* patients of the rows the read returned
SweepCardsStep ==
  /\ pc.op = "sweep"
  /\ pc.at = 2
  /\ kanban_cards' = SweepCards(kanban_cards, {s.patient_id : s \in pc.read})
  /\ cards' = IF id = NoBoard THEN cards ELSE FetchCards(kanban_cards', id)
  /\ pc' = Idle
  /\ lastOp' = Op("sweep", 0, 3, "success")
  /\ UNCHANGED <<kanban_boards, patients, surgeries, id, now, filters, requests>>

\* the sweep call by call while the surgery dialogs are in use: one board is
\* open, one patient has an overdue scheduled surgery
NextSweepSteps ==
  \/ \E p \in PatientIds : AddCard("scheduled", p)
  \/ \E p \in PatientIds, d \in Dates : AddSurgery(p, "scheduled", d)
  \/ \E sid \in SurgeryIds, st \in {"scheduled", "completed", "cancelled"}, d \in Dates :
       EditSurgery(sid, st, d)
  \/ SweepReadStep
  \/ SweepSurgeriesStep
  \/ SweepCardsStep
  \/ Interrupt

SpecSweepSteps == InitLatch /\ [][NextSweepSteps]_vars

\* ------------------------------------------- reordering a column that has gaps
\* Board 1 is open on cards whose positions are whatever earlier adds, moves and
\* deletes left: card n is patient n's card, in one of two columns, at any
\* position up to the number of cards the board has had.
ReorderCardInputs == [column_name : {"waiting", "scheduled"}, position : 0..MaxCards]

InitReorder ==
  /\ kanban_boards = [b \in {1} |-> DefaultColumns]
  /\ patients = [p \in PatientIds |-> NoMrn]
  /\ \E n \in 0..MaxCards : \E a \in [1..n -> ReorderCardInputs] :
       kanban_cards = {NewCard(i, 1, i, a[i].column_name, a[i].position) : i \in 1..n}
  /\ surgeries = {}
  /\ id = 1
  /\ cards = FetchCards(kanban_cards, 1)
  /\ now = 1
  /\ lastOp = Op("init", 0, 0, "success")
  /\ filters = NoFilters
  /\ requests = <<>>
  /\ pc = Idle

NextReorder ==
  \/ \E c \in CardIds, col \in {"waiting", "scheduled"} : DropOnColumn(c, col)
  \/ \E c \in CardIds, t \in CardIds, pos \in 0..MaxCards : DropOnCard(c, t, pos)

SpecReorder == InitReorder /\ [][NextReorder]_vars

\* the sweep run again and again, over a store that can fail any of its calls
\* and with runs that stop between two calls
NextSweepRetry ==
  \/ \E col \in {"waiting", "scheduled"}, p \in PatientIds : AddCard(col, p)
  \/ \E fail \in SweepFailures : UpdateOverdueSurgeriesRun(fail)
  \/ SweepReadStep
  \/ SweepSurgeriesStep
  \/ SweepCardsStep
  \/ Interrupt

SpecSweepRetry == InitLatch /\ [][NextSweepRetry]_vars

\* ---------------------------------------------- imports into an empty store
NextImport ==
  \/ \E mrn \in Mrns \cup {NoMrn} : AddPatient(mrn)
  \/ \E data \in ImportInputs : Import(data)

SpecImport == Init /\ [][NextImport]_vars

\* ================================================================ properties

\* the card with the id of card, as the store holds it after the step
After(card) == {d \in kanban_cards' : d.id = card.id}

\* number of rows of board b in column col
StoreCount(b, col) ==
  Cardinality({c \in kanban_cards : c.board_id = b /\ c.column_name = col})

\* C1: a per-patient resync (syncPatientKanbanWithSurgery, or the card write of
\* the edit-surgery dialog) leaves the column of every card whose
\* manual_override is true as it was.
C1_ResyncSkipsOverride ==
  [][lastOp'.op \in {"syncPatient", "editSurgery"} =>
       \A c \in kanban_cards :
         (c.patient_id = lastOp'.arg /\ c.manual_override) =>
           \A d \in After(c) : d.column_name = c.column_name]_vars

\* C2: a card dropped on a column other than its own gets that column, gets
\* manual_override = true, and gets the supplied target position or, without
\* one, the number of cards already in the target column.
C2_CrossColumnMove ==
  [][\A card \in kanban_cards :
       /\ \A col \in Columns :
            (card.column_name # col /\ DropOnColumn(card.id, col)) =>
              \E d \in After(card) :
                /\ d.column_name = col
                /\ d.manual_override
                /\ d.position = StoreCount(id, col)
       /\ \A t \in kanban_cards, pos \in 0..MaxCards :
            (card.column_name # t.column_name /\ DropOnCard(card.id, t.id, pos)) =>
              \E d \in After(card) :
                /\ d.column_name = t.column_name
                /\ d.manual_override
                /\ d.position = pos]_vars

\* C2 happens: a move without a target position has put an overridden card
\* behind the card that was already in the target column
C2_Witness ==
  /\ lastOp.op = "moveCard"
  /\ \E c \in kanban_cards, d \in kanban_cards :
       /\ c.id = lastOp.arg
       /\ c.manual_override
       /\ c.position = 1
       /\ d.id # c.id
       /\ d.board_id = c.board_id
       /\ d.column_name = c.column_name
       /\ d.position = 0

\* C3: a card dropped on a card of its own column has only its position
\* written: its column and its manual_override stay as they were.
C3_ReorderKeepsOverride ==
  [][\A card \in kanban_cards, t \in kanban_cards, pos \in 0..MaxCards :
       (card.column_name = t.column_name /\ DropOnCard(card.id, t.id, pos)) =>
         After(card) = {[card EXCEPT !.position = pos]}]_vars

\* C3 happens: a card was reordered and no card of the store is overridden
C3_Witness ==
  /\ lastOp.op = "updateCardPosition"
  /\ \E c \in kanban_cards : c.id = lastOp.arg /\ ~c.manual_override
  /\ \A c \in kanban_cards : ~c.manual_override

TableColumn(found, t) ==
  IF found = {} THEN "waiting"
  ELSE LET s == CHOOSE x \in found : TRUE
       IN IF s.status = "scheduled"
          THEN IF s.scheduled_date # NullDate /\ s.scheduled_date < t
               THEN "pending" ELSE "scheduled"
          ELSE IF s.status \in {"pending", "in_progress"} THEN "pending"
          ELSE IF s.status = "completed" THEN "operated"
          ELSE "waiting"

\* C5: the derived column is waiting without a surgery, pending for a scheduled
\* surgery dated before now, scheduled for a scheduled surgery dated later or
\* undated, pending for pending and in_progress, operated for completed and
\* waiting for cancelled.
C5_DerivationTable ==
  lastOp.op = "newColumn" => lastOp.result = TableColumn(surgeries, now)

\* C5 happens: the derivation has answered pending for an overdue scheduled surgery
C5_Witness ==
  /\ lastOp.op = "newColumn"
  /\ lastOp.result = "pending"
  /\ \E s \in surgeries : s.status = "scheduled" /\ s.scheduled_date < now

\* the surgeries a resync of patient p has to derive from: the earliest dated
\* among those neither completed nor cancelled (any of them when none is dated)
Authoritative(rows, p) ==
  LET open == {s \in rows : s.patient_id = p /\ s.status \notin {"completed", "cancelled"}}
      dated == {s \in open : s.scheduled_date # NullDate}
  IN IF dated # {}
     THEN {s \in dated : \A u \in dated : s.scheduled_date <= u.scheduled_date}
     ELSE open

\* the columns the derivation allows for patient p
TargetColumns(rows, p, t) ==
  IF Authoritative(rows, p) = {} THEN {"waiting"}
  ELSE {TableColumn({s}, t) : s \in Authoritative(rows, p)}

\* C6: the column a per-patient resync writes (syncPatientKanbanWithSurgery, or
\* the edit-surgery path) is derived from the patient's earliest surgery that is
\* neither completed nor cancelled, and is waiting when there is none.
C6_AuthoritativeSurgery ==
  [][lastOp'.op \in {"syncPatient", "editSurgery"} =>
       \A c \in kanban_cards :
         (c.patient_id = lastOp'.arg /\ ~c.manual_override) =>
           \A d \in After(c) :
             d.column_name \in TargetColumns(surgeries', lastOp'.arg, now)]_vars

\* C7: after a surgery is created or updated, every card of the patient without
\* manual_override, on every board, is in the column the derivation gives.
C7_ResyncAfterSurgeryWrite ==
  [][lastOp'.op \in {"addSurgery", "editSurgery"} =>
       \A d \in kanban_cards' :
         (d.patient_id = lastOp'.arg /\ ~d.manual_override) =>
           d.column_name \in TargetColumns(surgeries', lastOp'.arg, now)]_vars

\* at most one card per board and patient
UniqueCards ==
  \A c \in kanban_cards, d \in kanban_cards :
    (c.board_id = d.board_id /\ c.patient_id = d.patient_id) => c = d

\* C8: no two cards share board and patient, whatever add, create-patient,
\* import, move, reorder, delete and sync operations run; an add for a patient
\* already on the board creates no row.
C8_CardUniqueness ==
  /\ []UniqueCards
  /\ [][\A p \in DOMAIN patients :
          ((\E c \in kanban_cards : c.board_id = id /\ c.patient_id = p)
             /\ lastOp'.op = "addCard" /\ lastOp'.arg = p)
            => kanban_cards' = kanban_cards]_vars

\* C8 happens: an add for a patient already on the open board was rejected, and
\* an import has put a second board's cards into the store
C8_Witness ==
  /\ lastOp.op = "addCard"
  /\ lastOp.result = "error"
  /\ \E c \in kanban_cards : c.board_id = id /\ c.patient_id = lastOp.arg
  /\ \E c \in kanban_cards : c.board_id # id

\* C9: an operation rejected for a duplicate card has issued no store call.
C9_RejectBeforeStore ==
  (/\ lastOp.op = "addCard"
   /\ lastOp.result = "error"
   /\ \E c \in kanban_cards : c.board_id = id /\ c.patient_id = lastOp.arg)
    => lastOp.calls = 0

\* C10: cards added one after the other to a column have the positions 0..N-1
\* in the order they were added: each add takes the number of cards in the
\* column as the new card's position.  (With adds only, the store's ids grow in
\* the order of the inserts.)
C10_AppendPositions ==
  \A b \in DOMAIN kanban_boards : \A col \in Range(kanban_boards[b]) :
    LET cs == {c \in kanban_cards : c.board_id = b /\ c.column_name = col}
    IN /\ {c.position : c \in cs} = 0..(Cardinality(cs) - 1)
       /\ \A c \in cs, d \in cs : c.id < d.id => c.position < d.position

\* C10 happens: a second card was added to a column and stands at position 1
C10_Witness ==
  /\ lastOp.op \in {"addCard", "createPatientInKanban"}
  /\ lastOp.result = "success"
  /\ \E c \in kanban_cards, d \in kanban_cards :
       /\ c.board_id = d.board_id
       /\ c.column_name = d.column_name
       /\ c.position = 0
       /\ d.position = 1

\* the cards of the open board's cache that the listing of columnId has to show
ShownCards(columnId) ==
  {c \in cards :
     /\ c.column_name = columnId
     /\ (filters.search # NoMrn => MatchesSearch(c, filters.search))
     /\ (filters.urgency = "all" \/ c.priority = filters.urgency)
     /\ IF c.scheduled_date = NullDate
        THEN filters.dateFrom = NullDate /\ filters.dateTo = NullDate
        ELSE /\ (filters.dateFrom = NullDate \/ c.scheduled_date >= filters.dateFrom)
             /\ (filters.dateTo = NullDate \/ c.scheduled_date <= filters.dateTo)}

\* the list shown for a column is exactly ShownCards, each card once, by
\* ascending position
ListingExact ==
  lastOp.op = "getCardsForColumn" =>
    LET list == lastOp.result
    IN /\ Range(list) = ShownCards(lastOp.arg)
       /\ Len(list) = Cardinality(ShownCards(lastOp.arg))
       /\ \A i \in DOMAIN list, j \in DOMAIN list :
            i < j => list[i].position <= list[j].position

C12_MoveFailureNoOp ==
  [][lastOp'.op = "moveCard" =>
       /\ (~\E c \in kanban_cards : c.id = lastOp'.arg) =>
            (kanban_cards' = kanban_cards /\ lastOp'.result = "NotFound")
       /\ \A c \in kanban_cards :
            (/\ c.id = lastOp'.arg
             /\ \E d \in After(c) :
                  /\ d.column_name # c.column_name
                  /\ d.column_name \notin Range(kanban_boards[c.board_id]))
              => (kanban_cards' = kanban_cards /\ lastOp'.result = "InvalidColumn")]_vars

\* C13: once a card's manual_override is true it stays true, whatever move,
\* reorder, priority or checklist update, per-patient resync, surgery edit or
\* sweep runs.
C13_OverrideLatch ==
  [][\A c \in kanban_cards :
       c.manual_override => \A d \in After(c) : d.manual_override]_vars

\* C13 happens: a card is overridden, its priority and checklist were written,
\* and the sweep has moved it to column pending
C13_Witness ==
  \E c \in kanban_cards :
    /\ c.manual_override
    /\ c.priority = "urgent"
    /\ c.notes # <<>>
    /\ c.column_name = "pending"

\* C14: every card's column is the id of a column of the card's own board.
C14_ColumnPlacement ==
  \A c \in kanban_cards :
    c.board_id \in DOMAIN kanban_boards =>
      c.column_name \in Range(kanban_boards[c.board_id])

\* C19: deleting a column takes exactly the entries with that id out of the
\* board's column list, the rest staying in their order, and changes no card.
C19_DeleteColumnNoCascade ==
  [][lastOp'.op = "deleteColumn" =>
       \E col \in Columns :
         LET old == kanban_boards[id]
             new == kanban_boards'[id]
             kept == {i \in DOMAIN old : old[i] # col}
         IN /\ Len(new) = Cardinality(kept)
            /\ \A i \in kept :
                 new[Cardinality({j \in kept : j <= i})] = old[i]
            /\ \A b \in DOMAIN kanban_boards \ {id} : kanban_boards'[b] = kanban_boards[b]
            /\ kanban_cards' = kanban_cards]_vars

\* C19 happens: a column was deleted and a card still names a column that is
\* not in its board's list
C19_Witness ==
  /\ lastOp.op = "deleteColumn"
  /\ \E c \in kanban_cards :
       c.board_id = id /\ c.column_name \notin Range(kanban_boards[id])

\* the number of entries of list that are x
Count(list, x) == Cardinality({i \in DOMAIN list : list[i] = x})

\* C20: dropping column A on another column B replaces the list by a
\* permutation of itself in which A stands at the index B had, in one store
\* update, and changes no card.
C20_ColumnReorderPermutation ==
  [][\A a \in Columns, b \in Columns :
       (lastOp'.op = "columnDrop" /\ a # b /\ ColumnDrop(a, b)) =>
         LET old == kanban_boards[id]
             new == kanban_boards'[id]
         IN /\ Len(new) = Len(old)
            /\ \A x \in Range(old) \cup Range(new) : Count(new, x) = Count(old, x)
            /\ new[FindIndex(old, b)] = a
            /\ lastOp'.calls = 1
            /\ kanban_cards' = kanban_cards]_vars

\* C20 happens: the first column was dropped on the last of at least three
\* columns, which moved every column between them
C20_Witness ==
  /\ lastOp.op = "columnDrop"
  /\ id \in DOMAIN kanban_boards
  /\ Len(kanban_boards[id]) >= 3
  /\ kanban_boards[id][Len(kanban_boards[id])] = "waiting"
  /\ kanban_boards[id][1] = "scheduled"
  /\ kanban_cards # {}

\* C15: when the moves issued for a card have all been executed by the store,
\* the card's column and position are those of the move issued last, in
\* whatever order the store executed them.
C15_LastCallWins ==
  (\A i \in DOMAIN requests : requests[i].applied) =>
    \A c \in kanban_cards :
      LET mine == {i \in DOMAIN requests : requests[i].cardId = c.id}
      IN mine # {} =>
           LET last == CHOOSE i \in mine : \A j \in mine : j <= i
           IN /\ c.column_name = requests[last].newColumn
              /\ c.position = requests[last].newPosition

\* C16: whichever store call of the sweep fails, the sweep raises no error; if
\* the read or the surgery update fails, that run writes no card.
C16_SweepSwallowsFailures ==
  [][lastOp'.op = "sweep" =>
       /\ lastOp'.result # "error"
       /\ lastOp'.failed \in {"read", "surgeries"} =>
            (kanban_cards' = kanban_cards /\ surgeries' = surgeries)]_vars

\* C16 happens: the surgery update of a sweep run has failed with an overdue
\* surgery's card in column scheduled, and the card is still there
C16_Witness ==
  /\ lastOp.op = "sweep"
  /\ lastOp.failed = "surgeries"
  /\ \E c \in kanban_cards, s \in OverdueSurgeries(surgeries, now) :
       c.patient_id = s.patient_id /\ c.column_name = "scheduled"

\* C17: when the card write of a surgery edit fails in the store, the edit ends
\* in its error outcome.
C17_ResyncFailureSurfaced ==
  (lastOp.op = "editSurgery" /\ lastOp.failed = "cards") => lastOp.result = "error"

\* C18: after a board deletion that succeeded no card of that board is in the
\* store, and no patient and no surgery has changed.
C18_BoardDeletionCascades ==
  [][(lastOp'.op = "deleteBoard" /\ lastOp'.result = "success") =>
       /\ lastOp'.arg \notin DOMAIN kanban_boards'
       /\ ~\E c \in kanban_cards' : c.board_id = lastOp'.arg
       /\ \A c \in kanban_cards : c.board_id # lastOp'.arg => c \in kanban_cards'
       /\ patients' = patients
       /\ surgeries' = surgeries]_vars

\* C18 happens: a board was deleted although its own delete of the cards had
\* failed, and the other board still has its card
C18_Witness ==
  /\ lastOp.op = "deleteBoard"
  /\ lastOp.result = "success"
  /\ lastOp.failed = "cards"
  /\ kanban_cards # {}
  /\ surgeries # {}

\* C21: removing a card deletes that card only: every other card stays as it
\* was, no patient and no surgery changes, and removing a card that is no longer
\* in the store changes nothing.
C21_RemoveCardFrame ==
  [][lastOp'.op = "deleteCard" =>
       /\ kanban_cards' = {c \in kanban_cards : c.id # lastOp'.arg}
       /\ \A c \in kanban_cards :
            c.id # lastOp'.arg =>
              \E d \in After(c) : /\ d.column_name = c.column_name
                                  /\ d.position = c.position
                                  /\ d.manual_override = c.manual_override
       /\ (~\E c \in kanban_cards : c.id = lastOp'.arg) => kanban_cards' = kanban_cards
       /\ patients' = patients
       /\ surgeries' = surgeries
       /\ kanban_boards' = kanban_boards]_vars

\* C21 happens: the first card of a column was removed, and the card behind it
\* is still at position 1, with the patients and the surgery in place
C21_Witness ==
  /\ lastOp.op = "deleteCard"
  /\ surgeries # {}
  /\ \E c \in kanban_cards :
       /\ c.position = 1
       /\ ~\E d \in kanban_cards :
            d.board_id = c.board_id /\ d.column_name = c.column_name /\ d.position = 0

\* C22: a move to another column or a reorder within a column writes the
\* dragged card only: every other card, in the source column, in the target
\* column and on other boards, stays as it was, and no card appears or goes.
C22_MoveFrame ==
  [][lastOp'.op \in {"moveCard", "updateCardPosition"} =>
       /\ \A c \in kanban_cards : c.id # lastOp'.arg => c \in kanban_cards'
       /\ \A d \in kanban_cards' : d.id # lastOp'.arg => d \in kanban_cards
       /\ {d.id : d \in kanban_cards'} = {c.id : c \in kanban_cards}
       /\ patients' = patients
       /\ surgeries' = surgeries]_vars

\* C22 happens: a card was moved onto the card at position 0 of another
\* column, and the target card is still at position 0
C22_Witness ==
  /\ lastOp.op = "moveCard"
  /\ \E c \in kanban_cards, d \in kanban_cards :
       /\ c.id = lastOp.arg
       /\ c.manual_override
       /\ d.id # c.id
       /\ d.board_id = c.board_id
       /\ d.column_name = c.column_name
       /\ d.position = 0
       /\ c.position = 0

C24_OrphanOnInterruptedDelete ==
  [][(pc.op = "deleteBoard" /\ pc.read # {} /\ lastOp'.result = "interrupted") =>
       \E c \in kanban_cards' : c.board_id \notin DOMAIN kanban_boards']_vars

\* no card names a board that is not in the store
NoOrphanCard == \A c \in kanban_cards : c.board_id \in DOMAIN kanban_boards

\* C24 amended: board deletion is two store calls, the cards first and then the
\* board; after the first no card of the board is in the store, an interruption
\* between the two leaves the board in the store and writes nothing, and at no
\* time does a card name a board that is gone.
C24_InterruptedDeleteKeepsBoard ==
  /\ []NoOrphanCard
  /\ [][lastOp'.op = "deleteBoardCards" =>
          /\ ~\E c \in kanban_cards' : c.board_id = lastOp'.arg
          /\ \A c \in kanban_cards : c.board_id # lastOp'.arg => c \in kanban_cards'
          /\ kanban_boards' = kanban_boards]_vars
  /\ [][(pc.op = "deleteBoard" /\ lastOp'.result = "interrupted") =>
          /\ pc.arg \in DOMAIN kanban_boards'
          /\ kanban_boards' = kanban_boards
          /\ kanban_cards' = kanban_cards]_vars

\* C24 happens: a deletion of the open board was interrupted after its cards
\* went; the board is there without cards and the page still shows a card
C24_Witness ==
  /\ lastOp.op = "deleteBoard"
  /\ lastOp.result = "interrupted"
  /\ lastOp.arg = id
  /\ id \in DOMAIN kanban_boards
  /\ cards # {}
  /\ ~\E c \in kanban_cards : c.board_id = id

\* C25: no two cards in the same column of the same board have the same
\* position, whatever add, create-patient, move, reorder and delete operations
\* run.
C25_PositionUniqueness ==
  \A c \in kanban_cards, d \in kanban_cards :
    (/\ c.board_id = d.board_id
     /\ c.column_name = d.column_name
     /\ c.position = d.position) => c = d

\* C26: the sweep's surgery update sets to pending only surgeries that are
\* scheduled when it is executed: a surgery whose status a user changed after
\* the sweep's read keeps the user's status.
C26_SweepKeepsConcurrentEdit ==
  [][lastOp'.op = "sweepSurgeries" =>
       \A s \in surgeries : s.status # "scheduled" => s \in surgeries']_vars

\* C27: with no filter set, after card X is dropped on card T of its own column,
\* T being shown at index i, the listing of the column shows X at index i.
\* (Cards of equal position are listed in the store's order; the formula asks
\* that index i be one the listing can give X.)
C27_ReorderAtDropIndex ==
  [][\A x \in cards, t \in cards, i \in 0..MaxCards :
       (x.column_name = t.column_name /\ DropOnCard(x.id, t.id, i)) =>
         \A d \in cards' : d.id = x.id => i \in ListingIndexes(d)']_vars

\* the cards in column scheduled of rows whose patient has a pending surgery
StrandedCards(rows) ==
  {c \in rows : /\ c.column_name = "scheduled"
                /\ \E s \in surgeries : s.patient_id = c.patient_id /\ s.status = "pending"}

\* C28: when a sweep run has made a patient's overdue surgery pending and its
\* card write did not happen (the store failed it, or the run stopped between
\* the two writes), the next sweep run, with a working store, moves the
\* patient's cards in column scheduled to column pending.
C28_SweepEventuallyRelocates ==
  [][(/\ lastOp.op = "sweep"
      /\ \/ lastOp.failed = "cards"
         \/ lastOp.result = "interrupted" /\ lastOp.calls = 2
      /\ lastOp'.op = "sweep"
      /\ lastOp'.result = "success"
      /\ lastOp'.failed = "none")
       => StrandedCards(kanban_cards') = {}]_vars

\* C29: no two columns of a board's column list have the same id, whatever
\* add-column, edit-column, delete-column and reorder operations run, and
\* edit-column changes no column's id.
C29_ColumnIdsUnique ==
  /\ [](\A b \in DOMAIN kanban_boards :
          \A i \in DOMAIN kanban_boards[b], j \in DOMAIN kanban_boards[b] :
            kanban_boards[b][i] = kanban_boards[b][j] => i = j)
  /\ [][lastOp'.op = "editColumn" => kanban_boards' = kanban_boards]_vars

\* C30: an import that fails, at the board insert, at a patient insert or at a
\* card insert, leaves the store as it was before the import: no board, patient
\* or card it created remains.
C30_ImportAllOrNothing ==
  [][(lastOp'.op = "import" /\ lastOp'.result = "error") =>
       /\ kanban_boards' = kanban_boards
       /\ patients' = patients
       /\ kanban_cards' = kanban_cards]_vars
====
